---- MODULE Spec2Model ----
(***************************************************************************)
(* Model of redis-objects (coreymcf/node-redis-objects): the typed         *)
(* flatten/unflatten codec, the subtree eraser, the update orchestrator    *)
(* and the update queue of class RedisObjects, over a model of the Redis   *)
(* commands the class issues.                                              *)
(*                                                                         *)
(* JavaScript values are records [k |-> kind, s |-> text]: s is what       *)
(* String(value) / toISOString() / JSON.stringify(value) / toString()      *)
(* yields for the kind.  Plain objects are [k |-> "object", f |-> fields]. *)
(* Redis keys, hash fields and stored values are strings.                  *)
(***************************************************************************)
EXTENDS Integers, Sequences, FiniteSets, TLC

VARIABLES
  db,           \* Redis keyspace: key -> [t |-> "string", v] or [t |-> "hash", h]
  exp,          \* Redis expiries: key -> seconds
  storagePath,  \* this.storagePath
  queue,        \* this.queue
  queueLock,    \* this.queueLock
  current,      \* the entry processQueue is awaiting update() for (<<>> if none)
  submitted,    \* history: entries passed to queueUpdate, in call order
  applied,      \* history: entries whose update() has completed, in order
  prev,         \* history: [db, exp] before the last call
  last,         \* history: the last call, its arguments, result and command log
  earlier,      \* history: the call before the last one
  ncalls,       \* history: number of calls made
  race,         \* direct update calls in flight, not awaited by their caller
  scan          \* a scan loop of _deleteKeyPath or get, page by page

vars == <<db, exp, storagePath, queue, queueLock, current, submitted, applied,
          prev, last, earlier, ncalls, race, scan>>

(***************************************************************************)
(* JavaScript values                                                       *)
(***************************************************************************)
Str(s)   == [k |-> "string", s |-> s]
Num(s)   == [k |-> "number", s |-> s]
Bool(s)  == [k |-> "boolean", s |-> s]
DateV(s) == [k |-> "date", s |-> s]
Arr(s)   == [k |-> "array", s |-> s]
MapV(s)  == [k |-> "map", s |-> s]
SetV(s)  == [k |-> "set", s |-> s]
Fn(s)    == [k |-> "function", s |-> s]
Obj(f)   == [k |-> "object", f |-> f]
Null      == [k |-> "null", s |-> "null"]
Undefined == [k |-> "undefined", s |-> "undefined"]
JsFalse   == Bool("false")
JsTrue    == Bool("true")
Thrown    == [k |-> "thrown", s |-> ""]   \* evaluation raised an exception
EmptyFn   == <<>>
EmptyObject == Obj(EmptyFn)

\* String(v), as used by template literals, RegExp.exec and ioredis arguments
JsString(v) == v.s

\* JavaScript truthiness of a model value
Truthy(v) ==
  CASE v.k = "boolean" -> v.s = "true"
    [] v.k = "string" -> v.s # ""
    [] v.k = "number" -> v.s \notin {"0", "NaN"}
    [] v.k \in {"null", "undefined"} -> FALSE
    [] OTHER -> TRUE

\* the one element of a singleton set: {F(c) : c \in {step}} is the result
\* of continuing with F once the awaited step has settled with c
The(S) == CHOOSE x \in S : TRUE

FnSet(f, x, v) == [y \in DOMAIN f \cup {x} |-> IF y = x THEN v ELSE f[y]]
FnDel(f, x) == [y \in DOMAIN f \ {x} |-> f[y]]

(***************************************************************************)
(* String helpers                                                          *)
(***************************************************************************)
CharAt(s, i) == SubSeq(s, i, i)
StartsWith(s, p) == Len(s) >= Len(p) /\ SubSeq(s, 1, Len(p)) = p
EndsWith(s, p) == Len(s) >= Len(p) /\ SubSeq(s, Len(s) - Len(p) + 1, Len(s)) = p
Substring(s, from) == SubSeq(s, from + 1, Len(s))   \* s.substring(from)
Contains(s, sub) ==
  \E i \in 1..(Len(s) - Len(sub) + 1) : SubSeq(s, i, i + Len(sub) - 1) = sub

IndexOf(s, ch) ==
  LET I == {i \in 1..Len(s) : CharAt(s, i) = ch}
  IN IF I = {} THEN 0 ELSE CHOOSE i \in I : \A j \in I : i <= j

LastIndexOf(s, ch) ==
  LET I == {i \in 1..Len(s) : CharAt(s, i) = ch}
  IN IF I = {} THEN 0 ELSE CHOOSE i \in I : \A j \in I : j <= i

RECURSIVE ReplaceAll(_, _, _)
ReplaceAll(s, a, b) ==
  IF s = "" THEN ""
  ELSE (IF CharAt(s, 1) = a THEN b ELSE CharAt(s, 1))
         \o ReplaceAll(Substring(s, 1), a, b)

RECURSIVE Split(_, _)
Split(s, d) ==
  LET i == IndexOf(s, d)
  IN IF i = 0 THEN <<s>>
     ELSE <<SubSeq(s, 1, i - 1)>> \o Split(Substring(s, i), d)

Digits == {"0", "1", "2", "3", "4", "5", "6", "7", "8", "9"}
IsNumeric(s) == s # "" /\ \A i \in 1..Len(s) : CharAt(s, i) \in Digits

(***************************************************************************)
(* utls: the type classifier                                               *)
(***************************************************************************)
\* isJSON(str): str is a string that JSON.parse turns into an object or an
\* array.  JSON texts of the model are the bracketed ones.
isJSON(v) ==
  /\ v.k = "string"
  /\ Len(v.s) >= 2
  /\ \/ CharAt(v.s, 1) = "[" /\ EndsWith(v.s, "]")
     \/ CharAt(v.s, 1) = "{" /\ EndsWith(v.s, "}")

\* a faulty getValueType: a JSON-parseable string is classified as a string
getValueType_typeof(value) == value.k

getValueType(value) ==
  CASE value.k = "null" -> "null"
    [] value.k = "array" -> "array"
    [] value.k = "map" -> "map"
    [] value.k = "set" -> "set"
    [] value.k = "date" -> "date"
    [] value.k = "string" /\ isJSON(value) -> "json"
    [] OTHER -> value.k                      \* typeof value

(***************************************************************************)
(* JSON.parse / JSON.stringify on the texts the class handles              *)
(***************************************************************************)
\* JSON.stringify(string)
Quote(s) == "\"" \o s \o "\""
IsQuoted(s) == Len(s) >= 2 /\ CharAt(s, 1) = "\"" /\ EndsWith(s, "\"")
Unquote(s) == SubSeq(s, 2, Len(s) - 1)

\* JSON.parse of an object text: the object texts of the model
ParseObjectText(s) ==
  CASE s = "{}" -> EmptyObject
    [] s = "{\"a\":1}" -> Obj([a |-> Num("1")])
    [] OTHER -> [k |-> "object", f |-> EmptyFn, s |-> s]

\* JSON.parse(s) when isJSON(s)
ParseJSON(s) == IF CharAt(s, 1) = "[" THEN Arr(s) ELSE ParseObjectText(s)

\* JSON.stringify(value) for an array or object leaf
JSONStringify(value) ==
  IF value.k = "object" THEN (IF "s" \in DOMAIN value THEN value.s ELSE "{}")
  ELSE value.s

\* JSON.stringify({ type })
MetaPrefix == "{\"type\":\""
MetaText(type) == MetaPrefix \o type \o "\"}"
\* JSON.parse(text).type
MetaType(text) ==
  IF StartsWith(text, MetaPrefix) /\ EndsWith(text, "\"}")
  THEN SubSeq(text, Len(MetaPrefix) + 1, Len(text) - 2)
  ELSE "undefined"

(***************************************************************************)
(* flat: flatten(value, {delimiter: ":", safe: true})                      *)
(***************************************************************************)
\* Object.keys order: the segment names in the order the model's objects
\* are built in.
SegOrder == <<"a", "b", "x", "false", "n", "o", "o2", "sp">>
SegNames == {SegOrder[i] : i \in 1..Len(SegOrder)}

RECURSIVE SetToSeq(_)
SetToSeq(S) ==
  IF S = {} THEN <<>>
  ELSE LET x == CHOOSE y \in S : TRUE IN <<x>> \o SetToSeq(S \ {x})

Keys(f) ==
  SelectSeq(SegOrder, LAMBDA g : g \in DOMAIN f) \o SetToSeq(DOMAIN f \ SegNames)

RECURSIVE flattenStep(_, _, _)
\* the <<path, leaf>> pairs of the keys ks of object fields f, below prefix
flattenStep(f, ks, prefix) ==
  IF ks = <<>> THEN <<>>
  ELSE LET key == Head(ks)
           value == f[key]
           newKey == IF prefix = "" THEN key ELSE prefix \o ":" \o key
           here == IF value.k = "object" /\ "s" \notin DOMAIN value
                      /\ DOMAIN value.f # {}
                   THEN flattenStep(value.f, Keys(value.f), newKey)
                   ELSE <<<<newKey, value>>>>
       IN here \o flattenStep(f, Tail(ks), prefix)

flatten(value) == flattenStep(value.f, Keys(value.f), "")

(***************************************************************************)
(* RedisObjects._extractFinalSegment                                       *)
(***************************************************************************)
\* /^(.*):([^:]+)$/.exec(str) || ["", false, str]
extractFinalSegment(str) ==
  LET s == JsString(str)
      i == LastIndexOf(s, ":")
  IN IF i > 0 /\ i < Len(s)
     THEN <<Str(SubSeq(s, 1, i - 1)), Str(Substring(s, i))>>
     ELSE <<JsFalse, str>>

(***************************************************************************)
(* Redis commands, on a context c = [db, exp, log, err]                    *)
(***************************************************************************)
\* err: a rejection is propagating; failed: a command of the call was rejected
Ctx(d, e) ==
  [db |-> d, exp |-> e, log |-> <<>>, err |-> FALSE, failed |-> FALSE]
Logged(c, cmd, key) == [c EXCEPT !.log = Append(@, <<cmd, key>>)]
LoggedField(c, cmd, key, field) ==
  [c EXCEPT !.log = Append(@, <<cmd, key, field>>)]
\* a faulty Failed: the rejection does not propagate
Failed_silent(c) ==
  [c EXCEPT !.failed = TRUE, !.log = Append(@, <<"rejected", "">>)]

\* the last command is rejected by the store
Failed(c) ==
  [c EXCEPT !.err = TRUE, !.failed = TRUE,
            !.log = Append(@, <<"rejected", "">>)]

redisType(d, key) == IF key \in DOMAIN d THEN d[key].t ELSE "none"

\* ioredis: toArg(arg) is "" for null and undefined, String(arg) otherwise
toArg(v) == IF v.k \in {"null", "undefined"} THEN "" ELSE JsString(v)

\* SET key value: replaces a key of any type and discards its expiry
redisSet(c, key, value) ==
  IF c.err THEN c
  ELSE [Logged(c, "set", key) EXCEPT
          !.db = FnSet(@, key, [t |-> "string", v |-> value]),
          !.exp = FnDel(@, key)]

\* HSET key field value: WRONGTYPE on a string key
redisHset(c, key, field, value) ==
  IF c.err THEN c
  ELSE LET type == redisType(c.db, key)
           old == IF type = "hash" THEN c.db[key].h ELSE EmptyFn
       IN IF type = "string" THEN Failed(LoggedField(c, "hset", key, field))
          ELSE [LoggedField(c, "hset", key, field) EXCEPT
                  !.db = FnSet(@, key,
                               [t |-> "hash", h |-> FnSet(old, field, value)])]

\* HSET key value: wrong number of arguments
redisHsetNoField(c, key) ==
  IF c.err THEN c ELSE Failed(Logged(c, "hset", key))

\* DEL key
redisDel(c, key) ==
  IF c.err THEN c
  ELSE [Logged(c, "del", key) EXCEPT
          !.db = FnDel(@, key), !.exp = FnDel(@, key)]

\* HDEL key field: WRONGTYPE on a string key; a hash left empty is removed
redisHdel(c, key, field) ==
  IF c.err THEN c
  ELSE LET type == redisType(c.db, key)
           rest == FnDel(c.db[key].h, field)
       IN CASE type = "none" -> Logged(c, "hdel", key)
            [] type = "string" -> Failed(Logged(c, "hdel", key))
            [] OTHER ->
                 IF DOMAIN rest = {}
                 THEN [Logged(c, "hdel", key) EXCEPT
                         !.db = FnDel(@, key), !.exp = FnDel(@, key)]
                 ELSE [Logged(c, "hdel", key) EXCEPT
                         !.db = FnSet(@, key, [t |-> "hash", h |-> rest])]

\* EXPIRE key ttl
redisExpire(c, key, ttl) ==
  IF c.err THEN c
  ELSE IF key \in DOMAIN c.db
       THEN [Logged(c, "expire", key) EXCEPT !.exp = FnSet(@, key, ttl)]
       ELSE Logged(c, "expire", key)

\* the store d once every expiry of e has elapsed: a key with an expiry is
\* removed as a whole, a hash with all its fields
expired(d, e) == [k \in DOMAIN d \ DOMAIN e |-> d[k]]

\* the keys a complete SCAN MATCH prefix* iteration returns
redisScan(d, prefix) == {key \in DOMAIN d : StartsWith(key, prefix)}

RECURSIVE redisDelAll(_, _)
redisDelAll(c, keys) ==
  IF keys = <<>> THEN c
  ELSE The({redisDelAll(c1, Tail(keys)) : c1 \in {redisDel(c, Head(keys))}})

(***************************************************************************)
(* RedisObjects._deleteKeyPath(key, path)                                  *)
(***************************************************************************)
\* Hash key: if (type === "none") { hdel(parent hash, final segment) }
eraseField(c, type, key, path) ==
  LET seg == extractFinalSegment(path)
  IN IF type = "none"
     THEN redisHdel(c, key \o (IF Truthy(seg[1]) THEN ":" \o JsString(seg[1])
                                                 ELSE ""), toArg(seg[2]))
     ELSE c

\* Root: if (type === "hash" || type === "string") { del(key:path) }
eraseRoot(c, type, full) ==
  IF type \in {"hash", "string"} THEN redisDel(c, full) ELSE c

\* Branches: scan MATCH key:path* until the cursor is "0", del every key
eraseBranches(c, full) ==
  IF c.err THEN c
  ELSE redisDelAll(Logged(c, "scan", full \o "*"),
                   SetToSeq(redisScan(c.db, full)))

\* catch (err) { resolve(false); ... }: the caller's await never rejects
eraseSettled(c) == [c EXCEPT !.err = FALSE]

\* `${key}:${path}`
erasedKey(key, path) == key \o ":" \o JsString(path)

deleteKeyPath(c, key, path) ==
  LET full == erasedKey(key, path)
      type == redisType(c.db, full)
  IN The({eraseSettled(c4) :
            c4 \in {eraseBranches(c3, full) :
              c3 \in {eraseRoot(c2, type, full) :
                c2 \in {eraseField(c1, type, key, path) :
                  c1 \in {Logged(c, "type", full)}}}}})

(***************************************************************************)
(* RedisObjects._saveItem({ key, item, value, ttl, oldValue })             *)
(***************************************************************************)
\* the oldValue types whose tag record is deleted before the save
OldMetaTypes ==
  {"number", "raw", "json", "boolean", "function", "null", "map", "set"}

\* the types saved with a tag record
MetaTypes ==
  {"date", "number", "raw", "json", "boolean", "function", "null", "map", "set"}

\* key = this.storagePath ? this.storagePath + ":" + key : key
storageKey(sp, key) == IF Truthy(sp) THEN JsString(sp) \o ":" \o key ELSE key

\* fullKey = item ? `${key}:${item}` : key
fullKeyOf(key, item) ==
  IF Truthy(item) THEN key \o ":" \o JsString(item) ELSE key

\* a faulty metaKeyOf: the tag record as a sibling key of the leaf
metaKeyOf_sibling(fullKey) == fullKey \o ":meta"

\* metaKey = `${fullKey}.meta`
metaKeyOf(fullKey) == fullKey \o ".meta"

\* Delete old meta key (if applicable)
saveOldMeta(c, oldType, metaKey) ==
  IF oldType \in OldMetaTypes THEN redisDel(c, metaKey) ELSE c

\* a faulty saveWrite: the text is written JSON-encoded
saveWrite_encoded(c, key, item, text) ==
  IF Truthy(item) THEN redisHset(c, key, JsString(item), Quote(text))
  ELSE redisSet(c, key, Quote(text))

\* if (item) { hset(key, item, text) } else { set(key, text) }
saveWrite(c, key, item, text) ==
  IF Truthy(item) THEN redisHset(c, key, JsString(item), text)
  ELSE redisSet(c, key, text)

\* the type written to the tag record of a function
functionTag(value) ==
  IF ~Contains(value.s, "function") THEN "es6_function" ELSE "function"

\* switch (type) of _saveItem
saveValue(c, type, key, item, metaKey, value) ==
  CASE type = "string" -> saveWrite(c, key, item, toArg(value))
    [] type = "date" ->
         saveWrite(redisSet(c, metaKey, MetaText(type)), key, item, value.s)
    [] type \in {"number", "raw", "json", "boolean"} ->
         saveWrite(redisSet(c, metaKey, MetaText(type)), key, item,
                   toArg(value))
    [] type \in {"array", "object"} ->
         IF Truthy(item)
         THEN redisHset(c, key, JsString(item), JSONStringify(value))
         ELSE redisHsetNoField(c, key)
    [] type = "function" ->
         saveWrite(redisSet(c, metaKey, MetaText(functionTag(value))),
                   key, item, Quote(value.s))
    [] type \in {"null", "map", "set"} ->
         saveWrite(redisSet(c, metaKey, MetaText(type)), key, item,
                   IF type # "null" THEN value.s ELSE "null")
    [] type = "undefined" ->
         IF Truthy(item) THEN redisHdel(c, key, JsString(item))
         ELSE redisDel(c, key)
    [] OTHER -> Failed(c)

\* a faulty saveExpires: the tag record gets no expiry
saveExpires_leafOnly(c, ttl, setMeta, key, metaKey) ==
  IF ttl = 0 THEN c ELSE redisExpire(c, key, ttl)

\* Set expires async: ttl && expire(key, ttl); ttl && setMeta && expire(metaKey, ttl)
saveExpires(c, ttl, setMeta, key, metaKey) ==
  IF ttl = 0 THEN c
  ELSE IF setMeta THEN redisExpire(redisExpire(c, key, ttl), metaKey, ttl)
  ELSE redisExpire(c, key, ttl)

saveItem(c, sp, i) ==
  LET type == getValueType(i.value)
      key == storageKey(sp, i.key)
      metaKey == metaKeyOf(fullKeyOf(key, i.item))
  IN The({saveExpires(c2, i.ttl, type \in MetaTypes, key, metaKey) :
            c2 \in {saveValue(c1, type, key, i.item, metaKey, i.value) :
              c1 \in {saveOldMeta(c, getValueType(i.oldValue), metaKey)}}})

\* key: `${name}${path ? ":" + path : ""}${apath ? ":" + apath : ""}`
leafKey(name, path, apath) ==
  name \o (IF Truthy(path) THEN ":" \o JsString(path) ELSE "")
       \o (IF Truthy(apath) THEN ":" \o JsString(apath) ELSE "")

RECURSIVE saveLeaves(_, _, _, _)
\* for (const k in wrk) { await this._saveItem(...) } of update
saveLeaves(c, sp, i, wrk) ==
  IF wrk = <<>> \/ c.err THEN c
  ELSE LET seg == extractFinalSegment(Str(Head(wrk)[1]))
       IN The({saveLeaves(c1, sp, i, Tail(wrk)) :
                 c1 \in {saveItem(c, sp,
                                  [key |-> leafKey(i.name, i.path, seg[1]),
                                   item |-> seg[2],
                                   value |-> Head(wrk)[2], ttl |-> i.ttl,
                                   oldValue |-> i.oldValue])}})

(***************************************************************************)
(* RedisObjects.update({ name, path, value, oldValue, ttl })               *)
(***************************************************************************)
\* a faulty isEqual: never equal
isEqual_never(a, b) == FALSE

\* isEqual(value, oldValue): lodash deep equality, on model values
isEqual(a, b) == a = b

\* a faulty isPlainObject: an empty object is not taken for a plain object
isPlainObject_nonEmpty(value) == value.k = "object" /\ DOMAIN value.f # {}

\* value !== null && typeof value === "object" && value.constructor === Object
isPlainObject(value) == value.k = "object"

\* let deleting: value is undefined, or a plain object without keys
isDeleting(value) ==
  \/ value.k = "undefined"
  \/ isPlainObject(value) /\ DOMAIN value.f = {}

\* path = typeof path === "string" ? path.replaceAll(".", ":") : path
normalizePath(path) ==
  IF path.k = "string" THEN Str(ReplaceAll(path.s, ".", ":")) ELSE path

RetOf(c, ret) ==
  [db |-> c.db, exp |-> c.exp, log |-> c.log, failed |-> c.failed,
   ret |-> IF c.err THEN "error" ELSE ret]

\* a faulty updateWrite: the replace saves its leaves before it erases
updateWrite_eraseLast(c, sp, i) ==
  LET seg == extractFinalSegment(i.path)
  IN CASE isDeleting(i.value) -> c
       [] isPlainObject(i.value) ->
            deleteKeyPath(saveLeaves(c, sp, i, flatten(i.value)), i.name,
                          i.path)
       [] OTHER ->
            saveItem(c, sp,
                     [key |-> IF Truthy(seg[1])
                              THEN i.name \o ":" \o JsString(seg[1])
                              ELSE i.name,
                      item |-> IF Truthy(seg[2]) THEN seg[2] ELSE i.path,
                      value |-> i.value, ttl |-> i.ttl,
                      oldValue |-> i.oldValue])

\* the branches of update that write: replace, or single-leaf write
updateWrite(c, sp, i) ==
  LET seg == extractFinalSegment(i.path)
  IN CASE isDeleting(i.value) -> c
       [] isPlainObject(i.value) ->
            The({saveLeaves(c1, sp, i, wrk) :
                   c1 \in {deleteKeyPath(c, i.name, i.path)},
                   wrk \in {flatten(i.value)}})
       [] OTHER ->
            saveItem(c, sp,
                     [key |-> IF Truthy(seg[1])
                              THEN i.name \o ":" \o JsString(seg[1])
                              ELSE i.name,
                      item |-> IF Truthy(seg[2]) THEN seg[2] ELSE i.path,
                      value |-> i.value, ttl |-> i.ttl,
                      oldValue |-> i.oldValue])

\* if (deleting) { await this._deleteKeyPath(name, path) }
updateErase(c, i) ==
  IF isDeleting(i.value) /\ ~c.err THEN deleteKeyPath(c, i.name, i.path)
  ELSE c

update(d, e, sp, i) ==
  IF isEqual(i.value, i.oldValue) THEN RetOf(Ctx(d, e), "false")
  ELSE The({RetOf(c2, "true") :
              c2 \in {updateErase(c1, [i EXCEPT !.path = normalizePath(@)]) :
                c1 \in {updateWrite(Ctx(d, e), sp,
                                    [i EXCEPT !.path = normalizePath(@)])}}})

\* RedisObjects.put(name, value, ttl)
put(d, e, sp, name, value, ttl) ==
  update(d, e, sp, [name |-> name, path |-> JsFalse, value |-> value,
                    oldValue |-> JsFalse,            \* Always save
                    ttl |-> ttl])

(***************************************************************************)
(* RedisObjects.get(path): the read-path coercions                         *)
(***************************************************************************)
RECURSIVE Trim(_)
Trim(s) ==
  IF s = "" THEN ""
  ELSE IF CharAt(s, 1) = " " THEN Trim(Substring(s, 1))
  ELSE IF EndsWith(s, " ") THEN Trim(SubSeq(s, 1, Len(s) - 1))
  ELSE s

RECURSIVE JoinTrimmed(_)
\* parts.map((arg) => arg.trim()).join(", ")
JoinTrimmed(parts) ==
  IF Len(parts) = 1 THEN Trim(parts[1])
  ELSE Trim(parts[1]) \o ", " \o JoinTrimmed(Tail(parts))

\* func.match(/\(([^)]*)\)/), split, trimmed and joined again
FnArgs(src) ==
  LET i == IndexOf(src, "(")
      rest == Substring(src, i)
      j == IndexOf(rest, ")")
  IN IF i = 0 \/ j = 0 THEN ""
     ELSE JoinTrimmed(Split(SubSeq(rest, 1, j - 1), ","))

\* (func.match(/(?<={)([\s\S]*)(?=})/) || [""])[0]
FnBody(src) ==
  LET i == IndexOf(src, "{")
      j == LastIndexOf(src, "}")
  IN IF i = 0 \/ j <= i THEN "" ELSE SubSeq(src, i + 1, j - 1)

WordChars ==
  {"a", "b", "c", "d", "e", "f", "g", "h", "i", "j", "k", "l", "m", "n", "o",
   "p", "q", "r", "s", "t", "u", "v", "w", "x", "y", "z", "_"} \cup Digits

\* func.match(/^function (\w+)/) finds a name
HasFuncName(src) ==
  StartsWith(src, "function ") /\ Len(src) >= 10 /\ CharAt(src, 10) \in WordChars

RECURSIVE StripZeros(_)
StripZeros(s) ==
  IF Len(s) > 1 /\ CharAt(s, 1) = "0" THEN StripZeros(Substring(s, 1)) ELSE s

\* Number(text), on the unsigned integer texts
ToNumber(text) ==
  IF text = "" THEN Num("0")
  ELSE IF IsNumeric(text) THEN Num(StripZeros(text)) ELSE Num("NaN")

\* new Date(Date.parse(text))
ToDate(text) ==
  IF Len(text) = 24 /\ CharAt(text, 11) = "T" /\ EndsWith(text, "Z")
  THEN DateV(text) ELSE DateV("Invalid Date")

\* JSON.parse(text) || "" of the function cases, then the rebuilt function
ToFunction(ktype, text) ==
  IF ~IsQuoted(text) THEN Thrown
  ELSE LET src == Unquote(text)
       IN IF ktype = "es6_function"
          THEN Fn("(" \o FnArgs(src) \o ") => {" \o FnBody(src) \o "}")
          ELSE IF HasFuncName(src) THEN Thrown
          ELSE Fn("function (" \o FnArgs(src) \o ") {" \o FnBody(src) \o "}")

\* switch (_ktype) of get, on the stored text of one hash field
coerce(ktype, text) ==
  CASE ktype = "number" -> ToNumber(text)
    [] ktype = "date" -> ToDate(text)
    [] ktype = "map" ->
         IF ~isJSON(Str(text)) THEN Str(text)
         ELSE IF StartsWith(text, "[[") \/ text = "[]" THEN MapV(text)
         ELSE Thrown
    [] ktype = "null" -> Null
    [] ktype = "boolean" -> IF text = "true" THEN JsTrue ELSE JsFalse
    [] ktype = "set" ->
         IF ~isJSON(Str(text)) THEN Str(text)
         ELSE IF CharAt(text, 1) = "[" THEN SetV(text)
         ELSE Thrown
    [] ktype \in {"es6_function", "function"} -> ToFunction(ktype, text)
    [] ktype = "json" -> Str(text)
    [] OTHER ->
         IF isJSON(Str(text)) THEN ParseJSON(text)
         ELSE IF StartsWith(text, "JSON}}}") THEN Str(Substring(text, 7))
         ELSE Str(text)

(***************************************************************************)
(* flat: unflatten(target, {delimiter: ":", object: true, safe: true})     *)
(***************************************************************************)
RECURSIVE unflattenBuild(_)
\* the object built from a set of <<segments, value>> entries; an entry that
\* ends at a segment takes that segment, deeper entries are not written
\* over it
unflattenBuild(E) ==
  [g \in {e[1][1] : e \in E} |->
     LET here == {e \in E : e[1] = <<g>>}
         below == {e \in E : e[1][1] = g /\ Len(e[1]) > 1}
     IN IF here # {} THEN (CHOOSE e \in here : TRUE)[2]
        ELSE Obj(unflattenBuild({<<Tail(e[1]), e[2]>> : e \in below}))]

RECURSIVE PairsOf(_, _)
PairsOf(c, wrk) ==
  IF wrk = <<>> THEN {}
  ELSE {<<Split(c \o ":" \o Head(wrk)[1], ":"), Head(wrk)[2]>>}
         \cup PairsOf(c, Tail(wrk))

\* target: redis key -> fields read from that hash
unflatten(target) ==
  Obj(unflattenBuild(UNION {PairsOf(c, flatten(Obj(target[c]))) :
                              c \in DOMAIN target}))

(***************************************************************************)
(* RedisObjects.get(path)                                                  *)
(***************************************************************************)
Resolved(v) == [st |-> "resolved", v |-> v]
Pending == [st |-> "pending", v |-> Undefined]   \* the promise never settles

\* one field k of hash c: its tag record, when scanned, selects the coercion
getField(d, children, c, k) ==
  LET mk == c \o ":" \o k \o ".meta"
  IN IF mk \in children
     THEN (IF d[mk].t = "string" THEN coerce(MetaType(d[mk].v), d[c].h[k])
           ELSE Thrown)
     ELSE coerce("string", d[c].h[k])

\* the fields of the scanned keys; rp.hgetall(key) answers an error for a
\* key that is not a hash, and that key is skipped
getFields(d, children) ==
  [c \in {x \in children : d[x].t = "hash"} |->
     [k \in DOMAIN d[c].h |-> getField(d, children, c, k)]]

getThrew(read) == \E c \in DOMAIN read : \E k \in DOMAIN read[c] : read[c][k] = Thrown

\* Scan found nothing, so check for other datatype...
getOther(d, path) ==
  LET type == redisType(d, path)
  IN CASE type = "string" -> Str(d[path].v)
       [] type = "hash" -> Obj([k \in DOMAIN d[path].h |-> Str(d[path].h[k])])
       [] OTHER -> EmptyObject

getWorking(d, path, scanned) ==
  IF DOMAIN scanned.f # {} THEN scanned ELSE getOther(d, path)

member(o, key) ==
  IF o.k = "object" /\ key \in DOMAIN o.f THEN o.f[key] ELSE Undefined

\* resolve(originalPath !== path ? workingObject[this.storagePath][originalPath]
\*                               : workingObject[path] || workingObject)
getResolve(sp, originalPath, path, workingObject) ==
  IF originalPath # path
  THEN (IF member(workingObject, JsString(sp)) = Undefined THEN Pending
        ELSE Resolved(member(member(workingObject, JsString(sp)), originalPath)))
  ELSE IF Truthy(member(workingObject, path))
  THEN Resolved(member(workingObject, path))
  ELSE Resolved(workingObject)

getFinish(d, sp, originalPath, path, read) ==
  IF getThrew(read) THEN Pending
  ELSE getResolve(sp, originalPath, path,
                  getWorking(d, path, unflatten(read)))

get(d, sp, originalPath) ==
  LET path == storageKey(sp, originalPath)
  IN getFinish(d, sp, originalPath, path,
               getFields(d, redisScan(d, path)))

(***************************************************************************)
(* Inputs of the model                                                     *)
(***************************************************************************)
MaxCalls == 2      \* calls of put/update per behaviour of Spec
MaxQueued == 3     \* queueUpdate calls per behaviour of SpecQueue
MaxBurst == 2      \* queueUpdate calls per behaviour of SpecQueueFair

Names == {"o"}
StoragePaths == {JsFalse, Str("sp")}

ISODate == "2020-01-01T00:00:00.000Z"
ArrayText == "[1,\"a\"]"
PairsText == "[[\"a\",1]]"
ObjectText == "{\"a\":1}"
ClassicFn == Fn("function (p, q) { return p }")
ArrowFn == Fn("(p) => { return p }")
NamedFn == Fn("function f(p) { return p }")

\* one leaf of every supported type, and the strings that collide with the
\* stored form of another type
AllLeaves ==
  {Str("x"), Str("true"), Str("12"), Str("JSON}}}x"), Str(ArrayText),
   Str(ObjectText), Num("12"), JsTrue, JsFalse, Null, DateV(ISODate),
   Arr(ArrayText), MapV(PairsText), SetV(ArrayText), ClassicFn, ArrowFn,
   NamedFn}

\* values put by SpecCodec
CodecObjects ==
  {Obj([a |-> l]) : l \in AllLeaves}
    \cup {Obj([n |-> Obj([b |-> l])]) : l \in AllLeaves}
    \cup {Obj([a |-> l1, n |-> Obj([b |-> l2])]) : l1, l2 \in AllLeaves}
CodecValues == CodecObjects \cup AllLeaves \cup {EmptyObject, Undefined}

\* values of Spec
UpdateLeaves ==
  {Str("x"), JsFalse, Num("12"), Null, DateV(ISODate), Str(ArrayText),
   Arr(ArrayText), MapV(PairsText), SetV(ArrayText), ClassicFn}
PutObjects ==
  {Obj([a |-> Str("x")]),
   Obj([a |-> Num("12"), b |-> JsFalse]),
   Obj([a |-> DateV(ISODate), n |-> Obj([a |-> Str("x"), b |-> JsFalse])]),
   Obj([n |-> Obj([b |-> Str("x")])]),
   Obj([false |-> Str("x")])}
PutValues ==
  PutObjects \cup {EmptyObject, Undefined, JsFalse, Str("x"), Arr(ArrayText)}
LeafPaths == {Str("a"), Str("n.b")}
TreePaths == {JsFalse, Str("n")}
TreeValues ==
  {Undefined, EmptyObject, Obj([b |-> Str("y")]),
   Obj([a |-> Str("y"), b |-> JsFalse])}

RECURSIVE valueAt(_, _)
\* the value of object v at the segments segs, undefined when absent
valueAt(v, segs) ==
  IF segs = <<>> THEN v
  ELSE IF v.k = "object" /\ Head(segs) \in DOMAIN v.f
       THEN valueAt(v.f[Head(segs)], Tail(segs))
       ELSE Undefined

\* the value an observer of the stored object holds at path (its oldValue)
observedAt(d, sp, name, path) ==
  LET r == get(d, sp, name)
  IN IF r.st # "resolved" THEN Undefined
     ELSE IF path.k # "string" THEN r.v
     ELSE valueAt(r.v, Split(path.s, "."))

\* the oldValue arguments tried for a call: omitted, false, the observed one
OldValues(d, sp, name, path) ==
  {Undefined, JsFalse, observedAt(d, sp, name, path)}

(***************************************************************************)
(* State machine                                                           *)
(***************************************************************************)
NoCall ==
  [op |-> "none", name |-> "", path |-> JsFalse, value |-> Undefined,
   oldValue |-> Undefined, ttl |-> 0, ret |-> "", log |-> <<>>,
   failed |-> FALSE, res |-> Pending]

\* no scan loop has been entered
NoScan ==
  [pc |-> "idle", who |-> "", ix |-> JsFalse, requested |-> <<>>,
   returned |-> <<>>, seen |-> <<>>, store |-> EmptyFn, keys |-> {}]

\* no direct call is in flight
NoRace == [calls |-> <<>>, overlapped |-> FALSE, lockstep |-> TRUE]

Init ==
  /\ db = EmptyFn
  /\ exp = EmptyFn
  /\ storagePath \in StoragePaths
  /\ queue = <<>>
  /\ queueLock = FALSE
  /\ current = <<>>
  /\ submitted = <<>>
  /\ applied = <<>>
  /\ prev = [db |-> EmptyFn, exp |-> EmptyFn]
  /\ last = NoCall
  /\ earlier = NoCall
  /\ ncalls = 0
  /\ race = NoRace
  /\ scan = NoScan

\* the effect of one update-family call on the state and the history
Called(op, i, r) ==
  /\ db' = r.db
  /\ exp' = r.exp
  /\ prev' = [db |-> db, exp |-> exp]
  /\ last' = [op |-> op, name |-> i.name, path |-> i.path, value |-> i.value,
              oldValue |-> i.oldValue, ttl |-> i.ttl, ret |-> r.ret,
              log |-> r.log, failed |-> r.failed, res |-> Pending]
  /\ earlier' = last
  /\ ncalls' = ncalls + 1
  /\ UNCHANGED <<storagePath, submitted, race, scan>>

\* a direct call leaves the queue alone
Direct == UNCHANGED <<queue, queueLock, current, applied>>

PutArgs(name, value) ==
  [name |-> name, path |-> JsFalse, value |-> value, oldValue |-> JsFalse,
   ttl |-> 0]

\* await redisObjects.put(name, value)
Put(values) ==
  \E name \in Names, value \in values :
    /\ Called("put", PutArgs(name, value),
              put(db, exp, storagePath, name, value, 0))
    /\ Direct

\* await redisObjects.update({ name, path, value, oldValue })
Update(paths, values) ==
  \E name \in Names, path \in paths, value \in values :
    \E oldValue \in OldValues(db, storagePath, name, path) :
      LET i == [name |-> name, path |-> path, value |-> value,
                oldValue |-> oldValue, ttl |-> 0]
      IN Called("update", i, update(db, exp, storagePath, i)) /\ Direct

\* await redisObjects.get(name)
Get ==
  \E name \in Names :
    /\ last' = [NoCall EXCEPT !.op = "get", !.name = name,
                              !.res = get(db, storagePath, name)]
    /\ prev' = [db |-> db, exp |-> exp]
    /\ earlier' = last
    /\ ncalls' = ncalls + 1
    /\ UNCHANGED <<db, exp, storagePath, queue, queueLock, current, submitted,
                   applied, race, scan>>

PutCall == ncalls < MaxCalls /\ Put(PutValues)
UpdateLeaf == ncalls < MaxCalls /\ Update(LeafPaths, UpdateLeaves)
UpdateTree == ncalls < MaxCalls /\ Update(TreePaths, TreeValues)

Next == PutCall \/ UpdateLeaf \/ UpdateTree

Spec == Init /\ [][Next]_vars

\* SpecCodec: one put of any value on the empty store, then get
CodecPut == ncalls = 0 /\ Put(CodecValues)
CodecGet == last.op = "put" /\ Get

NextCodec == CodecPut \/ CodecGet

SpecCodec == Init /\ [][NextCodec]_vars

\* SpecPartial: writes under two names, one of which is the key of the
\* other's nested hash, so that the store rejects a leaf save in the middle
\* of a replace
PartialNames == {"o", "o:n"}
PartialObjects ==
  {Obj([a |-> Str("y"), n |-> Obj([b |-> Str("x")]), o |-> JsFalse]),
   Obj([a |-> Num("12"), n |-> Obj([a |-> Str("x"), b |-> JsFalse])]),
   Obj([n |-> Obj([b |-> Str("x")])]),
   Obj([a |-> Str("y")])}
PartialValues == PartialObjects \cup {Str("x"), Undefined}

\* await redisObjects.put(name, value)
PartialPut ==
  /\ ncalls < MaxCalls
  /\ \E name \in PartialNames, value \in PartialValues :
       /\ Called("put", PutArgs(name, value),
                 put(db, exp, storagePath, name, value, 0))
       /\ Direct

\* await redisObjects.update({ name, path, value })
PartialUpdate ==
  /\ ncalls < MaxCalls
  /\ \E name \in PartialNames, path \in {Str("n")}, value \in PartialObjects :
       LET i == [name |-> name, path |-> path, value |-> value,
                 oldValue |-> Undefined, ttl |-> 0]
       IN Called("update", i, update(db, exp, storagePath, i)) /\ Direct

NextPartial == PartialPut \/ PartialUpdate

SpecPartial == Init /\ [][NextPartial]_vars

\* SpecTtl: writes with and without a ttl (0 stands for a ttl not supplied)
Ttls == {0, 60, 120}
TtlValues ==
  {Str("x"), JsFalse, Num("12"), DateV(ISODate),
   Obj([a |-> Str("x"), b |-> JsFalse]), Obj([n |-> Obj([b |-> Null])]),
   Undefined}

\* await redisObjects.put(name, value, ttl)
TtlPut ==
  /\ ncalls < MaxCalls
  /\ \E name \in Names, value \in TtlValues, ttl \in Ttls :
       /\ Called("put", [PutArgs(name, value) EXCEPT !.ttl = ttl],
                 put(db, exp, storagePath, name, value, ttl))
       /\ Direct

\* await redisObjects.update({ name, path, value, ttl })
TtlUpdate ==
  /\ ncalls < MaxCalls
  /\ \E name \in Names, path \in {Str("a"), Str("n")}, value \in TtlValues,
        ttl \in Ttls :
       LET i == [name |-> name, path |-> path, value |-> value,
                 oldValue |-> Undefined, ttl |-> ttl]
       IN Called("update", i, update(db, exp, storagePath, i)) /\ Direct

NextTtl == TtlPut \/ TtlUpdate

SpecTtl == Init /\ [][NextTtl]_vars

(***************************************************************************)
(* Direct update calls that are not awaited: each call runs from one store *)
(* command to the next, and the calls in flight take their steps in any    *)
(* order                                                                   *)
(***************************************************************************)
\* the arguments of the _saveItem calls of update, in the order it makes
\* them: one per flattened leaf for a replace, one for a single-leaf write
itemsOf(i) ==
  LET seg == extractFinalSegment(i.path)
      wrk == flatten(i.value)
  IN CASE isDeleting(i.value) -> <<>>
       [] isPlainObject(i.value) ->
            [n \in 1..Len(wrk) |->
               [key |-> leafKey(i.name, i.path,
                                extractFinalSegment(Str(wrk[n][1]))[1]),
                item |-> extractFinalSegment(Str(wrk[n][1]))[2],
                value |-> wrk[n][2], ttl |-> i.ttl, oldValue |-> i.oldValue]]
       [] OTHER ->
            <<[key |-> IF Truthy(seg[1])
                       THEN i.name \o ":" \o JsString(seg[1]) ELSE i.name,
               item |-> IF Truthy(seg[2]) THEN seg[2] ELSE i.path,
               value |-> i.value, ttl |-> i.ttl, oldValue |-> i.oldValue]>>

\* a faulty afterErase: update ends with the erase
afterErase_done(items) == "done"

\* where update goes on once _deleteKeyPath has resolved
afterErase(items) == IF items = <<>> THEN "done" ELSE "save"

\* update(i) up to its first store command
callStart(i) ==
  LET j == [i EXCEPT !.path = normalizePath(@)]
      run == [i |-> j, type |-> "none", children |-> <<>>,
              items |-> itemsOf(j), ret |-> "true", n |-> 0]
  IN IF isEqual(i.value, i.oldValue)
     THEN [run EXCEPT !.ret = "false"] @@ [pc |-> "done"]
     ELSE IF isDeleting(i.value) \/ isPlainObject(i.value)
     THEN run @@ [pc |-> "probe"]
     ELSE run @@ [pc |-> "save"]

\* the call p runs from one resolved store command to the next on store
\* (d, e): the result is the call's new position and the store
callStep(p, d, e, sp) ==
  LET full == erasedKey(p.i.name, p.i.path)
      q == [p EXCEPT !.n = @ + 1]
      same == [db |-> d, exp |-> e]
  IN CASE p.pc = "probe" ->       \* await redis.type(`${key}:${path}`)
            [p |-> [q EXCEPT !.type = redisType(d, full), !.pc = "erase"]]
              @@ same
       [] p.pc = "erase" ->       \* await redis.hdel(...) or redis.del(...)
            LET c == eraseRoot(eraseField(Ctx(d, e), p.type, p.i.name,
                                          p.i.path), p.type, full)
            IN [p |-> [q EXCEPT !.pc = IF c.err THEN afterErase(p.items)
                                       ELSE "scan"],
                db |-> c.db, exp |-> c.exp]
       [] p.pc = "scan" ->        \* await redis.scan(..., `${key}:${path}*`)
            LET children == SetToSeq(redisScan(d, full))
            IN [p |-> [q EXCEPT !.children = children,
                                !.pc = IF children = <<>>
                                       THEN afterErase(p.items) ELSE "del"]]
                 @@ same
       [] p.pc = "del" ->         \* await redis.del(d)
            LET c == redisDel(Ctx(d, e), Head(p.children))
            IN [p |-> [q EXCEPT !.children = Tail(@),
                                !.pc = IF Tail(p.children) = <<>>
                                       THEN afterErase(p.items) ELSE "del"],
                db |-> c.db, exp |-> c.exp]
       [] p.pc = "save" ->        \* await this._saveItem({...})
            LET c == saveItem(Ctx(d, e), sp, Head(p.items))
            IN [p |-> [q EXCEPT !.items = Tail(@),
                                !.ret = IF c.err THEN "error" ELSE @,
                                !.pc = IF c.err \/ Tail(p.items) = <<>>
                                       THEN "done" ELSE "save"],
                db |-> c.db, exp |-> c.exp]

InFlight(p) == p.pc # "done"

\* the objects the raced calls write at path n, and the stores they run on
RaceValues ==
  {Obj([a |-> Str("1")]), Obj([b |-> Str("2")]),
   Obj([a |-> Str("1"), b |-> Str("1")]), Str("x"), Undefined}
RaceSeeds ==
  {Obj([a |-> Str("x")]), Obj([n |-> Obj([b |-> Str("x")])]),
   Obj([a |-> Str("x"), n |-> Obj([a |-> Str("x"), b |-> JsFalse])])}

\* await redisObjects.put(name, value), before the raced calls
RaceSeed ==
  /\ ncalls = 0
  /\ race = NoRace
  /\ Put(RaceSeeds)

\* redisObjects.update({...}); redisObjects.update({...}): two direct calls
\* on the same path, neither awaited
RaceIssue ==
  /\ race = NoRace
  /\ \E v1, v2 \in RaceValues :
       LET i1 == [name |-> "o", path |-> Str("n"), value |-> v1,
                  oldValue |-> Undefined, ttl |-> 0]
           i2 == [i1 EXCEPT !.value = v2]
       IN /\ v1 # v2
          /\ race' = [NoRace EXCEPT !.calls = <<callStart(i1), callStart(i2)>>]
  /\ prev' = [db |-> db, exp |-> exp]
  /\ UNCHANGED <<db, exp, storagePath, queue, queueLock, current, submitted,
                 applied, last, earlier, ncalls, scan>>

\* the store command the call k awaits resolves and the call runs on
RaceStep ==
  \E k \in DOMAIN race.calls :
    /\ InFlight(race.calls[k])
    /\ \E r \in {callStep(race.calls[k], db, exp, storagePath)} :
         LET other == race.calls[3 - k]
         IN /\ db' = r.db
            /\ exp' = r.exp
            /\ race' =
                 [calls |-> [race.calls EXCEPT ![k] = r.p],
                  overlapped |-> \/ race.overlapped
                                 \/ other.n > 0 /\ InFlight(other),
                  lockstep |-> /\ race.lockstep
                               /\ \/ ~InFlight(other)
                                  \/ k = 1 /\ other.n = race.calls[k].n
                                  \/ k = 2 /\ other.n = race.calls[k].n + 1]
    /\ UNCHANGED <<storagePath, queue, queueLock, current, submitted, applied,
                   prev, last, earlier, ncalls, scan>>

NextRace == RaceSeed \/ RaceIssue \/ RaceStep

SpecRace == Init /\ [][NextRace]_vars

(***************************************************************************)
(* The scan loops of _deleteKeyPath and get, page by page: the store        *)
(* answers SCAN cursor MATCH pattern with the next cursor and a page of     *)
(* keys, and with the cursor "0" on the last page                           *)
(***************************************************************************)
MaxPages == 3

\* the cursors the store hands out, in the order of its pages
Cursors == <<"8", "4", "12", "2">>

\* the cursor that requests the j-th page
cursorOf(j) == IF j = 1 THEN "0" ELSE Cursors[j - 1]

\* the store that answers a scan for the keys ks in n pages cut at the
\* positions cut: cursor requested -> <<cursor returned, keys of the page>>
pagedStore(ks, n, cut) ==
  LET from(j) == IF j = 1 THEN 1 ELSE cut[j - 1] + 1
      to(j) == IF j = n THEN Len(ks) ELSE cut[j]
  IN [c \in {cursorOf(j) : j \in 1..n} |->
        LET j == CHOOSE m \in 1..n : cursorOf(m) = c
        IN <<Str(IF j = n THEN "0" ELSE cursorOf(j + 1)),
             SubSeq(ks, from(j), to(j))>>]

\* every way the store may page the keys ks, empty pages included
Pagings(ks) ==
  UNION {{pagedStore(ks, n, cut) :
            cut \in {f \in [1..(n - 1) -> 0..Len(ks)] :
                       \A j \in 1..(n - 2) : f[j] <= f[j + 1]}} :
           n \in 1..MaxPages}

\* a faulty loop condition: the loop is left after the first page
scanGoesOn_once(ix) == ix = JsFalse

\* while (ix !== "0")
scanGoesOn(ix) == ix # Str("0")

\* ix || "0"
scanCursor(ix) == IF Truthy(ix) THEN ix ELSE Str("0")

\* `${key}:${path}*` of _deleteKeyPath(o, n), `${path}*` of get(o)
scanPrefix(who, sp) ==
  IF who = "erase" THEN erasedKey("o", Str("n")) ELSE storageKey(sp, "o")

ScanSeeds ==
  {Obj([a |-> DateV(ISODate), n |-> Obj([a |-> Str("x"), b |-> JsFalse])]),
   Obj([n |-> Obj([b |-> Str("x")])])}

\* await redisObjects.put(name, value), before the scan
ScanSeed ==
  /\ ncalls = 0
  /\ scan = NoScan
  /\ Put(ScanSeeds)

\* let [ix, children] = [false, []]: the loop is entered, on a store that
\* pages the matching keys in one of the possible ways
ScanStart ==
  /\ scan = NoScan
  /\ \E who \in {"erase", "get"} :
       \E store \in Pagings(SetToSeq(redisScan(db, scanPrefix(who,
                                                              storagePath)))) :
         scan' = [NoScan EXCEPT !.pc = "loop", !.who = who, !.store = store,
                                !.keys = redisScan(db, scanPrefix(who,
                                                                  storagePath))]
  /\ UNCHANGED <<db, exp, storagePath, queue, queueLock, current, submitted,
                 applied, prev, last, earlier, ncalls, race>>

\* redis.scan(ix || "0", "MATCH", pattern) is issued
ScanRequest ==
  /\ scan.pc = "loop"
  /\ scanGoesOn(scan.ix)
  /\ scan' = [scan EXCEPT !.pc = "await",
                          !.requested = Append(@, scanCursor(scan.ix))]
  /\ UNCHANGED <<db, exp, storagePath, queue, queueLock, current, submitted,
                 applied, prev, last, earlier, ncalls, race>>

\* [ix, children] = await ...: the page arrives and its keys are processed,
\* deleted one by one by _deleteKeyPath, collected by get
ScanResolve ==
  /\ scan.pc = "await"
  /\ JsString(scan.requested[Len(scan.requested)]) \in DOMAIN scan.store
  /\ \E reply \in {scan.store[JsString(scan.requested[Len(scan.requested)])]} :
       /\ scan' = [scan EXCEPT !.pc = "loop", !.ix = reply[1],
                               !.returned = Append(@, reply[1]),
                               !.seen = @ \o reply[2]]
       /\ \E c \in {IF scan.who = "erase"
                    THEN redisDelAll(Ctx(db, exp), reply[2])
                    ELSE Ctx(db, exp)} :
            db' = c.db /\ exp' = c.exp
  /\ UNCHANGED <<storagePath, queue, queueLock, current, submitted, applied,
                 prev, last, earlier, ncalls, race>>

\* the loop condition fails and the loop is left
ScanExit ==
  /\ scan.pc = "loop"
  /\ ~scanGoesOn(scan.ix)
  /\ scan' = [scan EXCEPT !.pc = "done"]
  /\ UNCHANGED <<db, exp, storagePath, queue, queueLock, current, submitted,
                 applied, prev, last, earlier, ncalls, race>>

ScanLoop == ScanRequest \/ ScanResolve \/ ScanExit

NextScan == ScanSeed \/ ScanStart \/ ScanRequest \/ ScanResolve \/ ScanExit

\* the store answers every scan request, and the loop runs on when it does
SpecScan == Init /\ [][NextScan]_vars /\ WF_vars(ScanLoop)

(***************************************************************************)
(* SpecFrame: two objects whose names, and subtrees whose names, start     *)
(* with the same characters                                                *)
(***************************************************************************)
MaxFrameCalls == 3   \* calls of put/update per behaviour of SpecFrame

FrameNames == {"o", "o2"}
FrameObjects ==
  {Obj([n |-> Obj([a |-> Str("x")]), n2 |-> Obj([a |-> Str("x")])]),
   Obj([n |-> JsFalse, n2 |-> Obj([a |-> JsFalse])]),
   Obj([a |-> Str("x"), n |-> Obj([b |-> JsFalse])])}
FramePaths == {Str("n"), Str("a")}
FrameValues == {Undefined, EmptyObject, Obj([b |-> Str("y")])}

\* await redisObjects.put(name, value)
FramePut ==
  /\ ncalls < MaxFrameCalls
  /\ \E name \in FrameNames, value \in FrameObjects :
       /\ Called("put", PutArgs(name, value),
                 put(db, exp, storagePath, name, value, 0))
       /\ Direct

\* await redisObjects.update({ name, path, value }): an erase or a replace
FrameUpdate ==
  /\ ncalls < MaxFrameCalls
  /\ \E name \in FrameNames, path \in FramePaths, value \in FrameValues :
       LET i == [name |-> name, path |-> path, value |-> value,
                 oldValue |-> Undefined, ttl |-> 0]
       IN Called("update", i, update(db, exp, storagePath, i)) /\ Direct

\* await redisObjects.get(name)
FrameGet ==
  /\ ncalls < MaxFrameCalls
  /\ \E name \in FrameNames :
       /\ last' = [NoCall EXCEPT !.op = "get", !.name = name,
                                 !.res = get(db, storagePath, name)]
       /\ prev' = [db |-> db, exp |-> exp]
       /\ earlier' = last
       /\ ncalls' = ncalls + 1
       /\ UNCHANGED <<db, exp, storagePath, queue, queueLock, current,
                      submitted, applied, race, scan>>

NextFrame == FramePut \/ FrameUpdate \/ FrameGet

SpecFrame == Init /\ [][NextFrame]_vars

(***************************************************************************)
(* SpecClassify: getValueType applied to every kind of value               *)
(***************************************************************************)
\* how the module that defines getValueType is loaded: src/utls.mjs is an ES
\* module (index.mjs imports it); the CommonJS index requires ./utls.js
Loaders == {"import", "require"}

\* the value of `this` in the body of getValueType.  getValueType is an
\* arrow function defined at the top level of its module, so its `this` is
\* the top-level one: undefined in an ES module, the exports object in a
\* CommonJS module
moduleThis(loader) ==
  IF loader = "import" THEN Undefined ELSE Obj([isJSON |-> Fn("isJSON")])

\* getValueType(value) with `this` bound to self: the tag, or Thrown when
\* the evaluation of this.isJSON(value) raises a TypeError.  The conditional
\* chain reaches this.isJSON only for a value whose typeof is "string".
getValueTypeThis(self, value) ==
  IF value.k = "string" /\ member(self, "isJSON") = Undefined THEN Thrown
  ELSE Str(getValueType(value))

ClassifyValues ==
  AllLeaves \cup {Undefined, EmptyObject, Obj([a |-> Str("x")]), Num("NaN"),
                  Str(""), Str("null"), Str("[]"), Str("{}")}

\* getValueType(value), called in a module loaded by loader
Classify ==
  /\ ncalls < MaxCalls
  /\ \E loader \in Loaders, value \in ClassifyValues :
       last' = [op |-> "getValueType", loader |-> loader, value |-> value,
                ret |-> getValueTypeThis(moduleThis(loader), value)]
  /\ earlier' = last
  /\ ncalls' = ncalls + 1
  /\ UNCHANGED <<db, exp, storagePath, queue, queueLock, current, submitted,
                 applied, prev, race, scan>>

NextClassify == Classify

SpecClassify == Init /\ [][NextClassify]_vars

(***************************************************************************)
(* The update queue: queueUpdate(i) and processQueue()                     *)
(***************************************************************************)
\* a faulty shift: the drain takes the newest entry
shift_newest(q) == [item |-> q[Len(q)], rest |-> SubSeq(q, 1, Len(q) - 1)]

\* i = this.queue.shift()
shift(q) == [item |-> Head(q), rest |-> Tail(q)]

\* processQueue from `while ((i = this.queue.shift()))` up to its next
\* suspension: either update(i) is awaited, or the loop ends, the lock is
\* released and the emptiness of the queue is checked once more
drain(q) ==
  IF q # <<>>
  THEN [queueLock |-> TRUE, current |-> <<shift(q).item>>,
        queue |-> shift(q).rest]
  ELSE [queueLock |-> FALSE, current |-> <<>>, queue |-> q]

\* a faulty processQueue: the lock is not looked at
processQueue_unlocked(lock, cur, q) == drain(q)

\* processQueue(): if (this.queueLock) return; this.queueLock = true; ...
processQueue(lock, cur, q) ==
  IF lock THEN [queueLock |-> lock, current |-> cur, queue |-> q]
  ELSE drain(q)

\* the entries passed to queueUpdate
QueueEntries ==
  {[name |-> "o", path |-> Str("x"), value |-> Num(v), oldValue |-> Undefined,
    ttl |-> 0] : v \in {"1", "2", "3"}}
    \cup {[name |-> "o", path |-> Str("x"), value |-> Undefined,
           oldValue |-> Num("1"), ttl |-> 0],
          [name |-> "o", path |-> JsFalse, value |-> Str("x"),
           oldValue |-> Undefined, ttl |-> 0]}

\* redisObjects.queueUpdate(i): this.queue.push(i); this.processQueue()
Enqueue(max) ==
  \E i \in QueueEntries :
    LET p == processQueue(queueLock, current, Append(queue, i))
    IN /\ Len(submitted) < max
       /\ submitted' = Append(submitted, i)
       /\ queue' = p.queue
       /\ queueLock' = p.queueLock
       /\ current' = p.current
       /\ UNCHANGED <<db, exp, storagePath, applied, prev, last, earlier,
                      ncalls, race, scan>>

\* a faulty drain: one entry is applied, then the lock is released
settled_once(ret, q) == [queueLock |-> FALSE, current |-> <<>>, queue |-> q]

\* a faulty drain: the loop goes on after a failed update
settled_goes_on(ret, q) == drain(q)

\* the state of the drain after `await this.update(i)` has settled with ret
settled(ret, q) ==
  IF ret = "error"
  THEN [queueLock |-> TRUE, current |-> <<>>, queue |-> q]  \* rethrown
  ELSE drain(q)

\* `await this.update(i)` of processQueue settles, and the loop goes on
UpdateSettles ==
  /\ current # <<>>
  /\ \E r \in {update(db, exp, storagePath, current[1])} :
       \E p \in {settled(r.ret, queue)} :
         /\ Called("queueUpdate", current[1], r)
         /\ applied' = Append(applied, current[1])
         /\ queue' = p.queue
         /\ queueLock' = p.queueLock
         /\ current' = p.current

QueueUpdate == Enqueue(MaxQueued)

NextQueue == QueueUpdate \/ UpdateSettles

SpecQueue == Init /\ [][NextQueue]_vars

\* the store answers every command, so an awaited update settles
QueueBurst == Enqueue(MaxBurst)

NextBurst == QueueBurst \/ UpdateSettles

SpecQueueFair == Init /\ [][NextBurst]_vars /\ WF_vars(UpdateSettles)

(***************************************************************************)
(* Properties                                                              *)
(***************************************************************************)
IsUpdateCall == last.op \in {"put", "update"}

IsNonEmptyObject(v) == v.k = "object" /\ DOMAIN v.f # {}

\* the value get(name) yields on store d
Read(d, name) == get(d, storagePath, name)

\* what a caller held before the last call
Before == Read(prev.db, last.name)

\* the tag-requiring leaf types of the specification's Leaf Writer
SpecTagTypes == {"boolean", "date", "null", "map", "set", "function", "json"}

\* the tag key of the leaf at a dotted path of object name
Segs(path) == Split(path.s, ".")
TagKey(name, path) ==
  storageKey(storagePath, name \o ":" \o ReplaceAll(path.s, ".", ":"))
    \o ".meta"

RECURSIVE replaceAt(_, _, _)
\* object v with the value at segments segs replaced by val
replaceAt(v, segs, val) ==
  IF segs = <<>> THEN val
  ELSE Obj([v.f EXCEPT ![Head(segs)] = replaceAt(@, Tail(segs), val)])

\* C1: a put of a non-empty object on the empty store followed by get
\* yields a value deep-equal to the object put, every leaf with its type.
C1_RoundTrip ==
  (last.op = "get" /\ earlier.op = "put" /\ IsNonEmptyObject(earlier.value))
    => last.res = Resolved(earlier.value)

\* C2: put of a non-empty object v1 followed by put of a non-empty object
\* v2 under the same name leaves get(name) equal to v2, and the store holds
\* what a put of v2 on the empty store holds: nothing of v1 remains.
C2_ShapeReplace ==
  ( /\ last.op = "put" /\ earlier.op = "put" /\ last.name = earlier.name
    /\ IsNonEmptyObject(last.value) /\ IsNonEmptyObject(earlier.value)
    /\ earlier.ret = "true" /\ last.ret = "true" )
    => /\ Read(db, last.name) = Resolved(last.value)
       /\ db = put(EmptyFn, EmptyFn, storagePath, last.name, last.value, 0).db

RECURSIVE inOrder(_, _, _)
\* the store after the updates of seq have been applied one after another
inOrder(d, e, seq) ==
  IF seq = <<>> THEN [db |-> d, exp |-> e]
  ELSE LET r == update(d, e, storagePath, Head(seq))
       IN inOrder(r.db, r.exp, Tail(seq))

\* C3: the entries submitted through queueUpdate are, at every moment, the
\* applied ones followed by the one being applied and the waiting ones, so
\* none is lost, repeated or overtaken; the store is the result of applying
\* the applied entries one after another in submission order; and when the
\* queue has drained the store is the result of all submitted updates in
\* that order.
C3_QueueOrdering ==
  /\ submitted = applied \o current \o queue
  /\ db = inOrder(EmptyFn, EmptyFn, applied).db
  /\ (~queueLock /\ queue = <<>> /\ current = <<>>)
       => db = inOrder(EmptyFn, EmptyFn, submitted).db

\* writes of 1, 2, 3 to the same path have drained and the path holds 3
C3_Witness ==
  /\ Len(submitted) = 3
  /\ \A n \in 1..3 : submitted[n].path = Str("x")
  /\ <<submitted[1].value, submitted[2].value, submitted[3].value>>
       = <<Num("1"), Num("2"), Num("3")>>
  /\ applied = submitted
  /\ ~queueLock
  /\ earlier.op = "queueUpdate" /\ earlier.value = Num("2")
  /\ db[storageKey(storagePath, "o")].h["x"] = "3"

\* C4: an update call whose value deep-equals its oldValue issues no store
\* command at all, leaves the keyspace and the expiries unchanged and
\* returns false.
C4_NoOpShortCircuit ==
  (IsUpdateCall /\ last.value = last.oldValue) =>
    /\ last.log = <<>>
    /\ db = prev.db
    /\ exp = prev.exp
    /\ last.ret = "false"

\* a no-op update on a store that holds an object
C4_Witness ==
  /\ last.op = "update"
  /\ last.value = last.oldValue
  /\ last.value # Undefined
  /\ db # EmptyFn
  /\ last.ret = "false"

\* C5: an update that writes a value of a tag-requiring type to a leaf
\* creates the leaf's tag record; an update that writes a plain string to a
\* leaf holding a value of a tag-requiring type, with that value passed as
\* oldValue, removes the tag record, and get returns the string at the leaf.
C5_TagLifecycle ==
  (last.op = "update" /\ last.path \in LeafPaths /\ last.ret = "true") =>
    /\ getValueType(last.value) \in SpecTagTypes
         => TagKey(last.name, last.path) \in DOMAIN db
    /\ ( /\ getValueType(last.value) = "string"
         /\ getValueType(last.oldValue) \in SpecTagTypes
         /\ TagKey(last.name, last.path) \in DOMAIN prev.db
         /\ last.oldValue = observedAt(prev.db, storagePath, last.name,
                                       last.path) )
         => /\ TagKey(last.name, last.path) \notin DOMAIN db
            /\ observedAt(db, storagePath, last.name, last.path) = last.value

\* C6: a call that writes the empty object {} to a name (or a path) of a
\* non-empty store ends in the store state, expiries included, in which the
\* deletion of that name (the same call with value undefined, put's
\* oldValue) ends.
C6_DeletionEquivalence ==
  (IsUpdateCall /\ last.value = EmptyObject /\ prev.db # EmptyFn) =>
    LET r == update(prev.db, prev.exp, storagePath,
                    [name |-> last.name, path |-> last.path,
                     value |-> Undefined, oldValue |-> JsFalse,
                     ttl |-> last.ttl])
    IN db = r.db /\ exp = r.exp /\ last.ret = r.ret

\* {} written to a stored subtree, which the call erased
C6_Witness ==
  /\ IsUpdateCall
  /\ last.value = EmptyObject
  /\ prev.db # EmptyFn
  /\ db # prev.db
  /\ last.ret = "true"

\* C7: after put(name, v) for a non-empty object v, put(name, {}) or the
\* deletion put(name, undefined) leaves no key, hash field or tag record,
\* and get(name) returns the empty object.
C7_RootDestroyed ==
  ( /\ last.op = "put" /\ last.value \in {EmptyObject, Undefined}
    /\ earlier.op = "put" /\ earlier.name = last.name
    /\ IsNonEmptyObject(earlier.value) /\ earlier.ret = "true" )
    => /\ db = EmptyFn
       /\ Read(db, last.name) = Resolved(EmptyObject)

RECURSIVE LeafEntries(_, _)
\* the leaves of object fields f: the hash each lives in, its field, its value
LeafEntries(f, hash) ==
  UNION {IF IsNonEmptyObject(f[k])
         THEN LeafEntries(f[k].f, hash \o ":" \o k)
         ELSE {[hash |-> hash, field |-> k, leaf |-> f[k]]} : k \in DOMAIN f}

\* the tag written for a leaf
TagOf(leaf) ==
  IF leaf.k # "function" THEN getValueType(leaf)
  ELSE IF Contains(leaf.s, "function") THEN "function" ELSE "es6_function"

\* store d holds object v below key root in the hash-per-parent layout, with
\* a tag record for exactly the leaves whose type is in tagTypes
Layout(d, root, v, tagTypes) ==
  LET E == LeafEntries(v.f, root)
      tagged == {e \in E : getValueType(e.leaf) \in tagTypes}
      tagKey(e) == e.hash \o ":" \o e.field \o ".meta"
  IN /\ DOMAIN d = {e.hash : e \in E} \cup {tagKey(e) : e \in tagged}
     /\ \A e \in E :
          /\ d[e.hash].t = "hash"
          /\ DOMAIN d[e.hash].h = {x.field : x \in {y \in E : y.hash = e.hash}}
     /\ \A e \in tagged :
          d[tagKey(e)] = [t |-> "string", v |-> MetaText(TagOf(e.leaf))]

PutOnEmpty ==
  /\ last.op = "put" /\ IsNonEmptyObject(last.value) /\ prev.db = EmptyFn

C9_SingleLeafUpdate ==
  ( /\ last.op = "update" /\ last.path \in LeafPaths
    /\ last.oldValue = Undefined
    /\ last.value.k \in {"string", "number", "boolean"}
    /\ Before.st = "resolved"
    /\ valueAt(Before.v, Segs(last.path)).k \notin {"undefined", "object"} )
    => Read(db, last.name)
         = Resolved(replaceAt(Before.v, Segs(last.path), last.value))

\* C10: put(name, value) is never skipped as unchanged: unless the store
\* fails it issues store commands and returns true, for every value.
C10_PutAlwaysSaves ==
  (last.op = "put" /\ last.ret # "error") =>
    /\ last.ret = "true"
    /\ last.log # <<>>

\* C11: an update call whose oldValue is omitted is never skipped as
\* unchanged, whatever its value, the deletion sentinel undefined included:
\* it issues store commands and does not return false.
C11_OmittedOldValueWrites ==
  (last.op = "update" /\ last.oldValue = Undefined) =>
    /\ last.ret # "false"
    /\ last.log # <<>>

\* C12: get(name) on a store that holds nothing resolves with the empty
\* object, with and without a storagePath.
C12_AbsentReadsEmpty ==
  (last.op = "get" /\ db = EmptyFn) => last.res = Resolved(EmptyObject)

\* the leaf a of the object put is a string that parses as JSON
JsonStringPut ==
  /\ last.op = "get" /\ earlier.op = "put"
  /\ IsNonEmptyObject(earlier.value)
  /\ "a" \in DOMAIN earlier.value.f
  /\ isJSON(earlier.value.f["a"])

\* C13: a string leaf whose content parses as a JSON object or array is
\* read back by a get that resolves as the identical string, not as the
\* parsed value.
C13_JsonStringStaysString ==
  (JsonStringPut /\ last.res.st = "resolved") =>
    member(last.res.v, "a") = earlier.value.f["a"]

\* the string "{\"a\":1}" was put as leaf a and get has resolved
C13_Witness ==
  /\ JsonStringPut
  /\ earlier.value.f["a"] = Str(ObjectText)
  /\ last.res.st = "resolved"

\* C14: when the store rejects a command issued on behalf of an update,
\* the erase step's type probe, field delete, key delete and scan
\* included, the update ends in an error, never returns true, and issues
\* no leaf write after the rejected command.
C14_FailuresPropagate ==
  (IsUpdateCall /\ last.failed) =>
    /\ last.ret = "error"
    /\ \A m, n \in DOMAIN last.log :
         (m < n /\ last.log[m][1] = "rejected")
           => last.log[n][1] \notin {"hset", "set"}

\* C15: the promise returned by get always settles, with a value or with a
\* failure: it never stays pending.
C15_GetSettles == last.op = "get" => last.res.st # "pending"

\* C16: at most one update submitted through the queue is being applied,
\* and only under the lock; a queueUpdate that arrives while the lock is
\* held only appends its entry: it applies nothing and starts nothing.
C16_SingleFlight ==
  /\ [](Len(current) <= 1 /\ (current # <<>> => queueLock))
  /\ [][(queueLock /\ submitted' # submitted) =>
          /\ queue' = Append(queue, submitted'[Len(submitted')])
          /\ current' = current /\ queueLock'
          /\ applied' = applied /\ db' = db /\ exp' = exp]_vars

\* an entry waits in the queue while the drain applies another one
C16_Witness ==
  /\ queueLock
  /\ current # <<>>
  /\ queue # <<>>
  /\ applied # <<>>

\* an update applied by the drain has failed
DrainFailed == last.op = "queueUpdate" /\ last.ret = "error"

\* C17: whenever the lock is free no drain is running and the queue is
\* empty; and, queueUpdate not being called again, every entry submitted
\* is eventually applied unless an update fails.
C17_SelfRearming ==
  /\ [](~queueLock => (queue = <<>> /\ current = <<>>))
  /\ \A n \in 1..MaxBurst :
       (Len(submitted) >= n) ~> (Len(applied) >= n \/ DrainFailed)

\* entries submitted in a burst have all been applied and the lock is free
C17_Witness ==
  /\ Len(submitted) >= 2
  /\ applied = submitted
  /\ ~queueLock
  /\ ~DrainFailed
  /\ earlier.op = "queueUpdate" /\ earlier.ret = "true"

\* C18: the lock does not stay held after a drain stopped by a failed
\* update: it is held only while an update is being applied.
C18_LockFreedAfterFailure == queueLock => current # <<>>

\* the leaf a tag record belongs to is stored: as a field of its parent hash
\* or, for a scalar root, as a plain key
TagLeafPresent(d, tagKey) ==
  LET leaf == SubSeq(tagKey, 1, Len(tagKey) - 5)
      i == LastIndexOf(leaf, ":")
      hash == SubSeq(leaf, 1, i - 1)
  IN \/ leaf \in DOMAIN d /\ d[leaf].t = "string"
     \/ /\ i > 0
        /\ hash \in DOMAIN d
        /\ d[hash].t = "hash"
        /\ Substring(leaf, i) \in DOMAIN d[hash].h

\* C19: whatever put and update calls have completed, with whatever
\* oldValue arguments, every tag record of the store belongs to a leaf that
\* is stored; and after a leaf has been written, its tag record exists when
\* the value written is of a tag-requiring type and does not exist when the
\* value written is a plain string.
C19_TagInvariant ==
  /\ \A k \in DOMAIN db : EndsWith(k, ".meta") => TagLeafPresent(db, k)
  /\ (last.op = "update" /\ last.path \in LeafPaths /\ last.ret = "true") =>
       /\ getValueType(last.value) \in SpecTagTypes
            => TagKey(last.name, last.path) \in DOMAIN db
       /\ getValueType(last.value) = "string"
            => TagKey(last.name, last.path) \notin DOMAIN db

\* C20: whatever put and update calls have completed, no logical path is
\* stored in two shapes: below a plain key there is no other key, and a
\* field of a hash is not also the root of a hash or of deeper keys.
C20_ShapeInvariant ==
  \A k \in DOMAIN db :
    /\ db[k].t = "string"
         => \A k2 \in DOMAIN db : ~StartsWith(k2, k \o ":")
    /\ db[k].t = "hash"
         => \A f \in DOMAIN db[k].h : \A k2 \in DOMAIN db :
              /\ k2 # k \o ":" \o f
              /\ ~StartsWith(k2, k \o ":" \o f \o ":")

\* the part of store d at or below the key root, the tag record of a leaf
\* stored at root included
Below(d, root) ==
  [k \in {x \in DOMAIN d : \/ x = root
                           \/ x = root \o ".meta"
                           \/ StartsWith(x, root \o ":")} |-> d[k]]

\* the last call replaced the subtree at a nested path by a non-empty object
IsSubtreeReplace ==
  /\ last.op = "update"
  /\ last.path.k = "string"
  /\ IsNonEmptyObject(last.value)
  /\ last.ret = "true"

\* the key of the hash that holds the leaf at the path of the last call
ParentKey ==
  LET seg == extractFinalSegment(normalizePath(last.path))
  IN storageKey(storagePath,
                IF Truthy(seg[1]) THEN last.name \o ":" \o JsString(seg[1])
                ELSE last.name)

\* C21: after update({name, path, value}) with a non-empty path and a
\* non-empty plain object value, the keys at or below name:path are exactly
\* the hashes of the flattened leaves of value and their tag records, and
\* the parent hash holds no leaf at the path: nothing of the previous
\* subtree survives.
C21_SubtreeReplace ==
  IsSubtreeReplace =>
    LET root == storageKey(storagePath,
                           erasedKey(last.name, normalizePath(last.path)))
    IN /\ Layout(Below(db, root), root, last.value, MetaTypes)
       /\ ParentKey \in DOMAIN db =>
            \/ db[ParentKey].t # "hash"
            \/ JsString(extractFinalSegment(normalizePath(last.path))[2])
                 \notin DOMAIN db[ParentKey].h

\* the last call ran the Subtree Eraser for its name and a non-empty path,
\* and resolved
IsErase ==
  /\ last.op = "update"
  /\ last.path.k = "string"
  /\ isDeleting(last.value)
  /\ last.ret = "true"

\* no key of store d equals root or has the prefix root, and the hash parent
\* holds no field named field
Erased(d, root, parent, field) ==
  /\ \A k \in DOMAIN d : ~StartsWith(k, root)
  /\ parent \in DOMAIN d =>
       \/ d[parent].t # "hash"
       \/ field \notin DOMAIN d[parent].h

\* C22: when the Subtree Eraser has completed for (name, path), the store
\* holds no key equal to name:path, no key with the prefix name:path and no
\* field named by the final path segment in the parent hash, whatever shape
\* was stored before.
C22_EraseComplete ==
  IsErase =>
    Erased(db,
           storageKey(storagePath,
                      erasedKey(last.name, normalizePath(last.path))),
           ParentKey,
           JsString(extractFinalSegment(normalizePath(last.path))[2]))

\* the last call took the single-leaf branch of update
IsSingleLeaf ==
  /\ IsUpdateCall
  /\ last.value # last.oldValue
  /\ last.value.k \notin {"undefined", "object"}

\* the tag key of the leaf the last call addresses
LeafTagKey ==
  IF last.path.k = "string" THEN TagKey(last.name, last.path)
  ELSE metaKeyOf(ParentKey)

\* the last call stored its leaf, as a field of the parent hash or, for the
\* root path, as a plain key, and changed nothing but that leaf and its tag
SavedOneItem ==
  LET field == JsString(extractFinalSegment(normalizePath(last.path))[2])
  IN /\ last.ret = "true"
     /\ ParentKey \in DOMAIN db
     /\ IF last.path.k = "string"
        THEN /\ db[ParentKey].t = "hash"
             /\ field \in DOMAIN db[ParentKey].h
             /\ \A g \in DOMAIN db[ParentKey].h \ {field} :
                  /\ redisType(prev.db, ParentKey) = "hash"
                  /\ g \in DOMAIN prev.db[ParentKey].h
                  /\ db[ParentKey].h[g] = prev.db[ParentKey].h[g]
        ELSE db[ParentKey].t = "string"
     /\ \A k \in (DOMAIN db \cup DOMAIN prev.db) \ {ParentKey, LeafTagKey} :
          k \in DOMAIN db /\ k \in DOMAIN prev.db /\ db[k] = prev.db[k]

\* C23: an update whose value is a scalar, array, date, map, set, function
\* or null never runs the Subtree Eraser and, unless the parent key holds a
\* plain string that the store refuses to treat as a hash, saves exactly one
\* item: the field <final path segment> of the hash name:<parent path>, or
\* the plain key name for the root path.
C23_SingleLeafWrite ==
  IsSingleLeaf =>
    /\ \A n \in DOMAIN last.log : last.log[n][1] \notin {"type", "scan"}
    /\ (last.path.k # "string" \/ redisType(prev.db, ParentKey) # "string")
         => SavedOneItem

\* the store rejected the save of a leaf of the replace the last call made
SaveFailed ==
  /\ IsUpdateCall
  /\ IsNonEmptyObject(last.value)
  /\ \E n \in 2..Len(last.log) :
       /\ last.log[n][1] = "rejected"
       /\ last.log[n - 1][1] \in {"hset", "set"}

\* the leaf saves the last call issued
SavesIssued == Cardinality({n \in DOMAIN last.log : last.log[n][1] = "hset"})

\* the j-th flattened leaf of the last call's value is in the store
LeafStored(j) ==
  LET leaf == flatten(last.value)[j]
      seg == extractFinalSegment(Str(leaf[1]))
      key == storageKey(storagePath,
                        leafKey(last.name, normalizePath(last.path), seg[1]))
  IN /\ redisType(db, key) = "hash"
     /\ JsString(seg[2]) \in DOMAIN db[key].h
     /\ db[key].h[JsString(seg[2])] = toArg(leaf[2])

\* C24: when the store rejects the save of the k-th leaf of a replace,
\* update rejects, the rejected command is the last one the call issues
\* (the leaves after k are never attempted) and the leaves 1..k-1 are still
\* in the store.
C24_NoRollback ==
  SaveFailed =>
    /\ last.ret = "error"
    /\ last.log[Len(last.log)][1] = "rejected"
    /\ SavesIssued <= Len(flatten(last.value))
    /\ \A j \in 1..(SavesIssued - 1) : LeafStored(j)

\* the second of three leaves was rejected: the first is stored, the third
\* was not attempted
C24_Witness ==
  /\ SaveFailed
  /\ Len(flatten(last.value)) = 3
  /\ SavesIssued = 2
  /\ LeafStored(1)
  /\ last.ret = "error"

\* both raced calls have resolved
RaceDone ==
  /\ race.calls # <<>>
  /\ \A k \in DOMAIN race.calls :
       ~InFlight(race.calls[k]) /\ race.calls[k].ret = "true"

\* the store after the raced calls have run one after another, first then
\* second, from the store they were issued on
Sequential(first, second) ==
  update(update(prev.db, prev.exp, storagePath, race.calls[first].i).db,
         prev.exp, storagePath, race.calls[second].i).db

\* the hash of o at n holds a leaf that only the value of call k has
HoldsLeafOf(k) ==
  LET key == storageKey(storagePath, "o:n")
      mine == race.calls[k].i.value
      theirs == race.calls[3 - k].i.value
  IN /\ redisType(db, key) = "hash"
     /\ IsNonEmptyObject(mine)
     /\ \E f \in DOMAIN mine.f :
          /\ f \in DOMAIN db[key].h
          /\ db[key].h[f] = toArg(mine.f[f])
          /\ ~(IsNonEmptyObject(theirs) /\ f \in DOMAIN theirs.f)

\* C25: direct update calls are not serialized: when two calls on the same
\* path have both resolved, the store is the outcome of one of the two
\* sequential orders unless the calls overlapped, one taking a step while
\* the other was between two of its store commands; and overlapping calls
\* do reach a store that is the outcome of neither order and holds leaves
\* of both values (the state C25_Witness).
C25_Unserialized ==
  (RaceDone /\ ~race.overlapped) =>
    db \in {Sequential(1, 2), Sequential(2, 1)}

\* two calls whose store commands were answered in turn have both resolved
\* on a store that holds a leaf of each value and is the outcome of neither
\* sequential order
C25_Witness ==
  /\ RaceDone
  /\ race.overlapped
  /\ race.lockstep
  /\ storagePath = JsFalse
  /\ HoldsLeafOf(1)
  /\ HoldsLeafOf(2)
  /\ db \notin {Sequential(1, 2), Sequential(2, 1)}

\* C26: when an update applied by the drain loop has failed, the loop has
\* stopped at that entry: the failed entry is the last one taken from the
\* queue, no entry is being applied, the store is as the failed update left
\* it, and the entries behind it are still in the queue in submission
\* order, none dropped and none reordered.
C26_DrainStopsAtFailure ==
  DrainFailed =>
    /\ current = <<>>
    /\ applied # <<>>
    /\ applied[Len(applied)]
         = [name |-> last.name, path |-> last.path, value |-> last.value,
            oldValue |-> last.oldValue, ttl |-> last.ttl]
    /\ submitted = applied \o queue
    /\ db = update(prev.db, prev.exp, storagePath, applied[Len(applied)]).db

\* the second of three submitted entries failed and the third is still in
\* the queue
C26_Witness ==
  /\ DrainFailed
  /\ Len(submitted) = 3
  /\ Len(applied) = 2
  /\ queue = <<submitted[3]>>

\* the last call wrote a leaf classified type by the single-leaf branch
WroteLeafOf(types) ==
  /\ IsSingleLeaf
  /\ getValueType(last.value) \in types
  /\ last.ret = "true"

\* what the store holds for the leaf the last call addresses
StoredLeaf ==
  IF last.path.k = "string"
  THEN db[ParentKey].h[JsString(
         extractFinalSegment(normalizePath(last.path))[2])]
  ELSE db[ParentKey].v

\* the last call issued SET on the tag key of its leaf
WroteTag ==
  \E n \in DOMAIN last.log : last.log[n] = <<"set", LeafTagKey>>

\* C27 as stated: writing a leaf whose value is a string or a number writes
\* the value as it is to the hash field, or to the plain key when there is
\* no field, and creates no tag record.
C27_AsStated ==
  WroteLeafOf({"string", "number"}) =>
    /\ StoredLeaf = JsString(last.value)
    /\ ~WroteTag

\* C27: writing a leaf whose value is a string or a number writes the value
\* as it is to the hash field, or to the plain key when there is no field;
\* for a string no tag record is created, for a number the tag record
\* {"type":"number"} is created.
C27_PlainLeaves ==
  WroteLeafOf({"string", "number"}) =>
    /\ StoredLeaf = JsString(last.value)
    /\ WroteTag <=> getValueType(last.value) = "number"
    /\ WroteTag => db[LeafTagKey] = [t |-> "string", v |-> MetaText("number")]

\* the number 12 has been written to the leaf a of a stored object
C27_Witness ==
  /\ WroteLeafOf({"number"})
  /\ last.path = Str("a")
  /\ prev.db # EmptyFn
  /\ StoredLeaf = "12"
  /\ WroteTag

\* the leaves the last call saved: the hash (or plain key) each is stored
\* in, its tag key and its value
SavedLeaves ==
  IF IsNonEmptyObject(last.value)
  THEN {[key |-> e.hash, tag |-> e.hash \o ":" \o e.field \o ".meta",
         leaf |-> e.leaf] :
          e \in LeafEntries(last.value.f,
                            storageKey(storagePath,
                                       leafKey(last.name,
                                               normalizePath(last.path),
                                               JsFalse)))}
  ELSE {[key |-> ParentKey, tag |-> LeafTagKey, leaf |-> last.value]}

\* the last call saved leaves and resolved
SavedWithTtl ==
  /\ IsUpdateCall
  /\ last.value # last.oldValue
  /\ ~isDeleting(last.value)
  /\ last.ret = "true"

\* C28: when leaves are saved with a ttl, an expiry of ttl seconds is set on
\* the storage key of every leaf saved and on the tag key of every leaf a
\* tag record was written for; when no ttl is supplied, no EXPIRE is issued
\* and no key gets an expiry it did not have.
C28_Ttl ==
  SavedWithTtl =>
    IF last.ttl = 0
    THEN /\ \A n \in DOMAIN last.log : last.log[n][1] # "expire"
         /\ \A k \in DOMAIN exp : k \in DOMAIN prev.exp /\ exp[k] = prev.exp[k]
    ELSE \A e \in SavedLeaves :
           /\ e.key \in DOMAIN exp /\ exp[e.key] = last.ttl
           /\ getValueType(e.leaf) \in MetaTypes
                => /\ e.tag \in DOMAIN db
                   /\ e.tag \in DOMAIN exp /\ exp[e.tag] = last.ttl

\* {a: "x", b: false} has been put with a ttl of 60 seconds on a store that
\* holds expiries: the hash and the tag key of b expire in 60
C28_Witness ==
  /\ SavedWithTtl
  /\ last.ttl = 60
  /\ last.value = Obj([a |-> Str("x"), b |-> JsFalse])
  /\ last.path = JsFalse
  /\ prev.exp # EmptyFn
  /\ {storageKey(storagePath, "o"), storageKey(storagePath, "o:b.meta")}
       \subseteq DOMAIN exp
  /\ exp[storageKey(storagePath, "o")] = 60
  /\ exp[storageKey(storagePath, "o:b.meta")] = 60

\* the last call took the replace branch of update
IsReplace ==
  /\ IsUpdateCall
  /\ last.value # last.oldValue
  /\ IsNonEmptyObject(last.value)

\* the leaf saves of the last call, as logged: <<"hset", key, field>>
LeafSaves == SelectSeq(last.log, LAMBDA cmd : cmd[1] = "hset")

\* the position of the first leaf save in the log of the last call
FirstSave ==
  IF LeafSaves = <<>> THEN Len(last.log) + 1
  ELSE CHOOSE n \in DOMAIN last.log :
         /\ last.log[n][1] = "hset"
         /\ \A m \in 1..(n - 1) : last.log[m][1] # "hset"

\* the j-th leaf save a replace by the last call has to make
ExpectedSave(j) ==
  LET seg == extractFinalSegment(Str(flatten(last.value)[j][1]))
  IN <<"hset",
       storageKey(storagePath,
                  leafKey(last.name, normalizePath(last.path), seg[1])),
       JsString(seg[2])>>

\* C29: within one replace the Subtree Eraser runs first and has completed
\* before the first leaf save is issued: the type probe is the first
\* command, the erase of the field or root and the scan precede the first
\* save, and every key the scan matches has been deleted by then; the leaf
\* saves follow one after another in flattened-path order.
C29_ReplaceOrdering ==
  IsReplace =>
    LET full == erasedKey(last.name, normalizePath(last.path))
    IN /\ last.log[1] = <<"type", full>>
       /\ \A n \in DOMAIN last.log :
            last.log[n][1] \in {"type", "scan", "hdel"} => n < FirstSave
       /\ (\A n \in DOMAIN last.log :
             last.log[n][1] = "rejected" => n > FirstSave)
            => /\ \E n \in 1..(FirstSave - 1) : last.log[n][1] = "scan"
               /\ \A k \in redisScan(prev.db, full) :
                    \E n \in 1..(FirstSave - 1) : last.log[n] = <<"del", k>>
       /\ Len(LeafSaves) <= Len(flatten(last.value))
       /\ \A j \in DOMAIN LeafSaves : LeafSaves[j] = ExpectedSave(j)
       /\ last.ret = "true" => Len(LeafSaves) = Len(flatten(last.value))

\* a replace of the subtree at n, which the scan finds stored, by an object
\* of two leaves: both saves follow the erase
C29_Witness ==
  /\ IsReplace
  /\ last.ret = "true"
  /\ last.path = Str("n")
  /\ redisScan(prev.db, "o:n") # {}
  /\ Len(LeafSaves) = 2
  /\ FirstSave > 3

RECURSIVE PagesAlong(_, _, _)
\* the keys of the first n pages of store, following the cursors from c
PagesAlong(store, c, n) ==
  IF n = 0 THEN <<>>
  ELSE store[c][2] \o PagesAlong(store, JsString(store[c][1]), n - 1)

\* the state of a scan loop is that of a cursor-chained scan
ScanChained ==
  scan.pc # "idle" =>
    /\ Len(scan.requested)
         = Len(scan.returned) + (IF scan.pc = "await" THEN 1 ELSE 0)
    /\ scan.requested # <<>> => scan.requested[1] = Str("0")
    /\ \A n \in 2..Len(scan.requested) :
         scan.requested[n] = scan.returned[n - 1]
    /\ \A n \in 1..(Len(scan.returned) - 1) : scan.returned[n] # Str("0")
    /\ scan.pc = "await" =>
         \/ scan.returned = <<>>
         \/ scan.returned[Len(scan.returned)] # Str("0")
    /\ scan.seen = PagesAlong(scan.store, "0", Len(scan.returned))
    /\ scan.pc = "done" =>
         /\ scan.returned # <<>>
         /\ scan.returned[Len(scan.returned)] = Str("0")
         /\ {scan.seen[n] : n \in DOMAIN scan.seen} = scan.keys
         /\ scan.who = "erase" => \A k \in scan.keys : k \notin DOMAIN db

\* C30: the scan loops of the Subtree Eraser and of the Object Reader
\* request the first page with cursor "0" and every further page with the
\* cursor the previous page returned, only after that page has resolved;
\* they process the keys of every page, the last one included, and stop
\* exactly when the store returns cursor "0"; and on a store that returns
\* "0" after finitely many pages the loop is left.
C30_CursorChainedScan ==
  /\ []ScanChained
  /\ (scan.pc \in {"loop", "await"}) ~> (scan.pc = "done")

\* the eraser has left its loop after three pages, the last of which held
\* a key
C30_Witness ==
  /\ scan.pc = "done"
  /\ scan.who = "erase"
  /\ Len(scan.returned) = 3
  /\ scan.store[JsString(scan.returned[2])][2] # <<>>
  /\ scan.keys # {}


\* the hash fields of store d that have no tag record and whose stored
\* string does not parse as a JSON object or array
UntaggedFields(d) ==
  {ck \in UNION {{<<c, k>> : k \in DOMAIN d[c].h} :
                   c \in {x \in DOMAIN d : d[x].t = "hash"}} :
     /\ (ck[1] \o ":" \o ck[2] \o ".meta") \notin DOMAIN d
     /\ ~isJSON(Str(d[ck[1]].h[ck[2]]))}

\* the value the last get returned for field k of hash c of the object read
ReadField(c, k) ==
  LET segs == Split(c \o ":" \o k, ":")
      root == Len(Split(storageKey(storagePath, last.name), ":"))
  IN valueAt(last.res.v, SubSeq(segs, root + 1, Len(segs)))

\* C31: a get that resolves returns every hash field that has no tag record
\* and whose stored string is not JSON-parseable into an object or array
\* exactly as the stored string.
C31_UntaggedStringKept ==
  (last.op = "get" /\ last.res.st = "resolved") =>
    \A ck \in UntaggedFields(db) :
      ReadField(ck[1], ck[2]) = Str(db[ck[1]].h[ck[2]])


\* the tag the classifier's rules give, in their priority order
ExpectedTag(v) ==
  IF v.k = "null" THEN "null"
  ELSE IF v.k = "array" THEN "array"
  ELSE IF v.k = "map" THEN "map"
  ELSE IF v.k = "set" THEN "set"
  ELSE IF v.k = "date" THEN "date"
  ELSE IF v.k = "string" /\ isJSON(v) THEN "json"
  ELSE v.k

\* C32: getValueType returns for every input value, without raising,
\* exactly the tag given by the rules null, array, map, set, date,
\* JSON-parseable string, otherwise the primitive type name, in that order.
C32_ClassifierTotal ==
  last.op = "getValueType" => last.ret = Str(ExpectedTag(last.value))


\* the last call erased or replaced the subtree at a nested path
IsEraseOrReplace ==
  /\ last.op = "update"
  /\ last.path.k = "string"
  /\ isDeleting(last.value) \/ IsNonEmptyObject(last.value)
  /\ last.ret = "true"

\* the key k is at or below the key root: root itself, the tag record of a
\* leaf at root, or a key of a deeper path
AtOrBelow(k, root) ==
  k = root \/ k = root \o ".meta" \/ StartsWith(k, root \o ":")

\* key k of the store before the last call is as it was; in the hash that
\* holds the leaf at the path, every other field is as it was
KeptOutside(k) ==
  IF k = ParentKey /\ prev.db[k].t = "hash"
  THEN \A f \in DOMAIN prev.db[k].h :
         f # JsString(extractFinalSegment(normalizePath(last.path))[2]) =>
           /\ k \in DOMAIN db
           /\ db[k].t = "hash"
           /\ f \in DOMAIN db[k].h
           /\ db[k].h[f] = prev.db[k].h[f]
  ELSE k \in DOMAIN db /\ db[k] = prev.db[k]

\* C33: erasing or replacing the subtree at (name, path) leaves every key
\* that is not at or below name:path as it was, sibling paths and other
\* objects whose key starts with the same characters included.
C33_EraseFrame ==
  IsEraseOrReplace =>
    LET root == storageKey(storagePath,
                           erasedKey(last.name, normalizePath(last.path)))
    IN \A k \in DOMAIN prev.db : ~AtOrBelow(k, root) => KeptOutside(k)


\* the part of store d that is stored under the object name
StoredUnder(d, name) ==
  Below(d, storageKey(storagePath, name))

\* C34: a get(name) that resolves returns no value at all or the value it
\* returns when the store holds the data stored under name and nothing
\* else; data of another object is never returned, also when name is absent
\* and another object's name starts with name.
C34_ReadIsolation ==
  (last.op = "get" /\ last.res.st = "resolved") =>
    \/ last.res.v = Undefined
    \/ last.res = get(StoredUnder(prev.db, last.name), storagePath, last.name)


\* the store keys named by the commands of the last call: a scan is named
\* by its pattern
KeysUsed ==
  {last.log[j][2] : j \in {n \in 1..Len(last.log) :
                             last.log[n][1] # "rejected"}}

\* the key space of the instance: the keys under the storagePath prefix
InNamespace(key) == StartsWith(key, JsString(storagePath) \o ":")

\* the map m of an instance with a storagePath, its keys without the prefix
Unprefixed(m) ==
  [k \in {Substring(x, Len(JsString(storagePath)) + 1) : x \in DOMAIN m} |->
     m[JsString(storagePath) \o ":" \o k]]

\* the store the last call leaves on an instance without a storagePath
\* that starts from the same data
OnDefaultInstance ==
  update(Unprefixed(prev.db), Unprefixed(prev.exp), JsFalse,
         [name |-> last.name, path |-> last.path, value |-> last.value,
          oldValue |-> last.oldValue, ttl |-> last.ttl]).db

\* C35: on an instance with a storagePath every store key that a put or
\* update reads, deletes, scans or writes lies under the storagePath
\* prefix, and the call leaves the store that the same call leaves on an
\* instance without a storagePath, under the prefix.
C35_NamespaceConsistency ==
  (IsUpdateCall /\ Truthy(storagePath)) =>
    /\ \A key \in KeysUsed : InNamespace(key)
    /\ Unprefixed(db) = OnDefaultInstance


\* the last call saved one leaf at a nested path with a ttl and resolved
SavedLeafWithTtl ==
  /\ IsSingleLeaf
  /\ last.op = "update"
  /\ last.path.k = "string"
  /\ last.ttl > 0
  /\ last.ret = "true"

\* the fields of the parent hash other than the leaf saved, as stored before
\* the last call without an expiry
SiblingsWithoutTtl ==
  IF /\ ParentKey \in DOMAIN prev.db
     /\ prev.db[ParentKey].t = "hash"
     /\ ParentKey \notin DOMAIN prev.exp
  THEN DOMAIN prev.db[ParentKey].h
         \ {JsString(extractFinalSegment(normalizePath(last.path))[2])}
  ELSE {}

\* C36: saving one leaf with a ttl sets no expiry on the sibling leaves of
\* the same parent that were written without a ttl: once the ttl has
\* elapsed the siblings are still stored, and so are their tag records.
C36_TtlFrame ==
  SavedLeafWithTtl =>
    \A f \in SiblingsWithoutTtl :
      LET after == expired(db, exp)
          tag == ParentKey \o ":" \o f \o ".meta"
      IN /\ ParentKey \in DOMAIN after
         /\ f \in DOMAIN after[ParentKey].h
         /\ (tag \in DOMAIN prev.db /\ tag \notin DOMAIN prev.exp)
              => tag \in DOMAIN after

====
